---------------------------- MODULE Spec2Model ----------------------------
(***************************************************************************)
(* Model of dm/syncer/causality.go: the causality engine (causalityWrap,   *)
(* run, close, add, detectConflict) and its key store (causalityRelation:  *)
(* get, set, rotate, clear, gc).                                           *)
(*                                                                         *)
(* Spec     the engine loop between an upstream producer that fills and    *)
(*          closes inCh and a downstream consumer that drains outCh.       *)
(* FairSpec Spec with the scheduling the Go runtime gives the engine       *)
(*          goroutine and an always-receiving consumer.                    *)
(* SpecRel  the store alone, driven by arbitrary calls of its methods and  *)
(*          of detectConflict, from newCausalityRelation.                  *)
(*                                                                         *)
(* The history variables produced, taken, sent and lastOp record what the  *)
(* program did; no action reads them to decide what the program does,      *)
(* except the upstream, which counts what it has sent.                     *)
(***************************************************************************)
EXTENDS Integers, Sequences, FiniteSets, TLC

VARIABLES
    groups,     \* causalityRelation.groups: sequence of dmlJobKeyRelationGroup
    inCh,       \* causality.inCh: jobs buffered in the input channel
    inClosed,   \* the upstream has closed inCh
    outCh,      \* causality.outCh: jobs buffered in the output channel
    outClosed,  \* close(c.outCh) has run
    pc,         \* position of the goroutine started by causalityWrap
    j,          \* the loop variable j of run
    produced,   \* history: every job the upstream sent on inCh, in order
    taken,      \* history: every job run has classified, with its label and
                \*          whether detectConflict returned true for it
    sent,       \* history: every job run placed on outCh, in order
    lastOp,     \* SpecRel: the last store call, its arguments and result
    queueSize   \* syncer.cfg.QueueSize: the capacity outCh was made with

vars == <<groups, inCh, inClosed, outCh, outClosed, pc, j,
          produced, taken, sent, lastOp, queueSize>>

----------------------------------------------------------------------------
(* Bounds of the model *)

MaxDml == 3          \* change items the upstream sends
MaxGc == 1           \* reclamation items the upstream sends
MaxSeq == 1          \* largest flush sequence number the upstream issues
InCap == 1           \* capacity of inCh
QueueSize == 1       \* syncer.cfg.QueueSize, capacity of outCh
FairMaxJobs == 3     \* FairSpec: items the upstream sends
MaxLongJobs == 6     \* SpecLong: jobs the upstream sends
MaxLongSeq == 3      \* SpecLong: largest flush sequence number
MaxQueueSize == 3    \* SpecCap: largest capacity of outCh
MaxCapJobs == 4      \* SpecCap: jobs the upstream sends
MaxGroups == 3       \* SpecRel: generations held at once
MaxEntries == 2      \* SpecRel: entries held at once

(* math.MaxInt64 at the integer width of the model checker *)
MaxInt64 == 2147483647

(* Keys are strings; the empty string is one of them. *)
Keys == {"", "a", "b"}

(* j.dml.CausalityKeys(): lists of at most two different keys *)
KeyLists ==
    {<<>>} \cup {<<k>> : k \in Keys}
           \cup {kl \in {<<k1, k2>> : k1, k2 \in Keys} : kl[1] # kl[2]}

FlushSeqs == 1..MaxSeq

----------------------------------------------------------------------------
(* Jobs *)

dmlJob(keys) ==
    [tp |-> "dml", keys |-> keys, flushSeq |-> 0, dmlQueueKey |-> ""]

flushJob(tp, seq) ==
    [tp |-> tp, keys |-> <<>>, flushSeq |-> seq, dmlQueueKey |-> ""]

gcJob(seq) ==
    [tp |-> "gc", keys |-> <<>>, flushSeq |-> seq, dmlQueueKey |-> ""]

newConflictJob ==
    [tp |-> "conflict", keys |-> <<>>, flushSeq |-> 0, dmlQueueKey |-> ""]

NoJob == [tp |-> "none", keys |-> <<>>, flushSeq |-> 0, dmlQueueKey |-> ""]

----------------------------------------------------------------------------
(* causalityRelation *)

EmptyData == [k \in {} |-> ""]

(* rotate reusing the map of the newest group for the new one *)
rotateSharesData(gs, flushJobSeq) ==
    Append(gs, [data |-> IF gs = <<>> THEN EmptyData ELSE gs[Len(gs)].data,
                prevFlushJobSeq |-> flushJobSeq])

rotate(gs, flushJobSeq) ==
    Append(gs, [data |-> EmptyData, prevFlushJobSeq |-> flushJobSeq])

newCausalityRelation == rotate(<<>>, -1)

(* get scans the groups from the newest to the oldest *)
RECURSIVE getFrom(_, _, _)
getFrom(gs, key, i) ==
    IF i < 1 THEN [val |-> "", ok |-> FALSE]
    ELSE IF key \in DOMAIN gs[i].data
         THEN [val |-> gs[i].data[key], ok |-> TRUE]
         ELSE getFrom(gs, key, i - 1)

(* get looking into the newest group only *)
getNewestOnly(gs, key) ==
    IF gs # <<>> /\ key \in DOMAIN gs[Len(gs)].data
    THEN [val |-> gs[Len(gs)].data[key], ok |-> TRUE]
    ELSE [val |-> "", ok |-> FALSE]

get(gs, key) == getFrom(gs, key, Len(gs))

set(gs, key, val) ==
    LET n == Len(gs)
        d == gs[n].data
    IN  [gs EXCEPT ![n].data =
            [x \in DOMAIN d \cup {key} |-> IF x = key THEN val ELSE d[x]]]

RECURSIVE lenFrom(_, _)
lenFrom(gs, i) ==
    IF i > Len(gs) THEN 0
    ELSE Cardinality(DOMAIN gs[i].data) + lenFrom(gs, i + 1)

len(gs) == lenFrom(gs, 1)

(* the loop of gc: idx is the 0-based index of the last group of the      *)
(* leading run of groups with prevFlushJobSeq <= flushJobSeq, 0 if none    *)
RECURSIVE gcIdx(_, _, _, _)
gcIdx(gs, flushJobSeq, i, idx) ==
    IF i > Len(gs) THEN idx
    ELSE IF gs[i].prevFlushJobSeq <= flushJobSeq
         THEN gcIdx(gs, flushJobSeq, i + 1, i - 1)
         ELSE idx

(* the leading groups with prevFlushJobSeq <= flushJobSeq, counted *)
leadingRun(gs, flushJobSeq) ==
    Cardinality({i \in 1..Len(gs) :
                    \A m \in 1..i : gs[m].prevFlushJobSeq <= flushJobSeq})

(* gc slicing at idx+1: the last group of the leading run goes as well *)
gcDropsRun(gs, flushJobSeq) ==
    IF flushJobSeq = MaxInt64
    THEN rotate(<<>>, -1)
    ELSE SubSeq(gs, leadingRun(gs, flushJobSeq) + 1, Len(gs))

(* gc slicing at idx-1: one more old group stays *)
gcKeepsOlder(gs, flushJobSeq) ==
    IF flushJobSeq = MaxInt64
    THEN rotate(<<>>, -1)
    ELSE LET idx == gcIdx(gs, flushJobSeq, 1, 0)
         IN  SubSeq(gs, IF idx = 0 THEN 1 ELSE idx, Len(gs))

(* gc without the rotate(-1) after dropping every group *)
gcNoRotate(gs, flushJobSeq) ==
    IF flushJobSeq = MaxInt64
    THEN <<>>
    ELSE SubSeq(gs, gcIdx(gs, flushJobSeq, 1, 0) + 1, Len(gs))

(* gc tagging the group of the emptied store with its argument *)
gcRotatesSeq(gs, flushJobSeq) ==
    IF flushJobSeq = MaxInt64
    THEN rotate(<<>>, flushJobSeq)
    ELSE SubSeq(gs, gcIdx(gs, flushJobSeq, 1, 0) + 1, Len(gs))

gc(gs, flushJobSeq) ==
    IF flushJobSeq = MaxInt64
    THEN rotate(<<>>, -1)
    ELSE SubSeq(gs, gcIdx(gs, flushJobSeq, 1, 0) + 1, Len(gs))

(* clear passing a number that is not the sentinel gc tests for *)
clearNotSentinel(gs) == gc(gs, MaxInt64 - 1)

clear(gs) == gc(gs, MaxInt64)

----------------------------------------------------------------------------
(* causality.detectConflict and causality.add *)

RECURSIVE detectLoop(_, _, _, _)
detectLoop(gs, keys, i, existedRelation) ==
    IF i > Len(keys) THEN FALSE
    ELSE LET r == get(gs, keys[i])
         IN  IF r.ok
             THEN IF existedRelation # "" /\ r.val # existedRelation
                  THEN TRUE
                  ELSE detectLoop(gs, keys, i + 1, r.val)
             ELSE detectLoop(gs, keys, i + 1, existedRelation)

(* detectConflict answering true for an empty key list *)
detectConflictEmptyTrue(gs, keys) ==
    IF Len(keys) = 0 THEN TRUE ELSE detectLoop(gs, keys, 1, "")

detectConflict(gs, keys) ==
    IF Len(keys) = 0 THEN FALSE ELSE detectLoop(gs, keys, 1, "")

(* first loop of add: the selected relation and the keys not in the store *)
RECURSIVE addFind(_, _, _, _, _)
addFind(gs, keys, i, selectedRelation, nonExistKeys) ==
    IF i > Len(keys)
    THEN [selectedRelation |-> selectedRelation, nonExistKeys |-> nonExistKeys]
    ELSE LET r == get(gs, keys[i])
         IN  IF r.ok
             THEN addFind(gs, keys, i + 1, r.val, nonExistKeys)
             ELSE addFind(gs, keys, i + 1, selectedRelation,
                          Append(nonExistKeys, keys[i]))

(* second loop of add: set every key not in the store *)
RECURSIVE addSet(_, _, _, _)
addSet(gs, nonExistKeys, i, selectedRelation) ==
    IF i > Len(nonExistKeys) THEN gs
    ELSE addSet(set(gs, nonExistKeys[i], selectedRelation),
                nonExistKeys, i + 1, selectedRelation)

(* add taking the value of the last get, found or not, as the relation *)
addSelectsLastVal(gs, keys) ==
    IF Len(keys) = 0
    THEN [relation |-> "", groups |-> gs]
    ELSE LET f == addFind(gs, keys, 1, keys[1], <<>>)
             sel == get(gs, keys[Len(keys)]).val
         IN  [relation |-> sel,
              groups |-> addSet(gs, f.nonExistKeys, 1, sel)]

(* add setting every key of the list, in the store already or not *)
addSetsAllKeys(gs, keys) ==
    IF Len(keys) = 0
    THEN [relation |-> "", groups |-> gs]
    ELSE LET f == addFind(gs, keys, 1, keys[1], <<>>)
         IN  [relation |-> f.selectedRelation,
              groups |-> addSet(gs, keys, 1, f.selectedRelation)]

(* add returns the label and leaves the store changed *)
add(gs, keys) ==
    IF Len(keys) = 0
    THEN [relation |-> "", groups |-> gs]
    ELSE LET f == addFind(gs, keys, 1, keys[1], <<>>)
         IN  [relation |-> f.selectedRelation,
              groups |-> addSet(gs, f.nonExistKeys, 1, f.selectedRelation)]

----------------------------------------------------------------------------
(* Histories *)

NoOp == [name |-> "none", seq |-> 0, keys |-> <<>>, result |-> FALSE,
         before |-> <<>>]

Taken(job, conflict) == [job |-> job, conflict |-> conflict]

IsDml(job) == job.tp = "dml"
IsFlush(job) == job.tp \in {"flush", "asyncFlush"}
IsGc(job) == job.tp = "gc"

Count(s, P(_)) == Len(SelectSeq(s, P))

LastFlushSeq ==
    LET fs == {produced[i].flushSeq : i \in {n \in 1..Len(produced) :
                                              IsFlush(produced[n])}}
    IN  IF fs = {} THEN 0 ELSE CHOOSE m \in fs : \A x \in fs : x <= m

----------------------------------------------------------------------------
(* The engine between its producer and its consumer *)

Init ==
    /\ groups = newCausalityRelation
    /\ inCh = <<>>
    /\ inClosed = FALSE
    /\ outCh = <<>>
    /\ outClosed = FALSE
    /\ pc = "range"
    /\ j = NoJob
    /\ produced = <<>>
    /\ taken = <<>>
    /\ sent = <<>>
    /\ lastOp = NoOp
    /\ queueSize = QueueSize

(* the upstream sends job on inCh *)
Send(job) ==
    /\ ~inClosed
    /\ Len(inCh) < InCap
    /\ inCh' = Append(inCh, job)
    /\ produced' = Append(produced, job)
    /\ UNCHANGED <<groups, inClosed, outCh, outClosed, pc, j, taken, sent,
                   lastOp, queueSize>>

ProducerDml ==
    /\ Count(produced, IsDml) < MaxDml
    /\ \E keys \in KeyLists : Send(dmlJob(keys))

(* flush sequence numbers are issued in increasing order *)
ProducerFlush ==
    \E tp \in {"flush", "asyncFlush"} :
        \E seq \in FlushSeqs : seq > LastFlushSeq /\ Send(flushJob(tp, seq))

ProducerGc ==
    /\ Count(produced, IsGc) < MaxGc
    /\ \E seq \in FlushSeqs : Send(gcJob(seq))

ProducerClose ==
    /\ ~inClosed
    /\ inClosed' = TRUE
    /\ UNCHANGED <<groups, inCh, outCh, outClosed, pc, j, produced, taken,
                   sent, lastOp, queueSize>>

(* the gc case without its continue *)
AfterSwitchNoContinue(tp, conflict) ==
    IF tp = "dml" /\ conflict THEN "sendConflict" ELSE "send"

(* where run goes after the switch on j.tp *)
AfterSwitch(tp, conflict) ==
    IF tp = "gc" THEN "range"
    ELSE IF tp = "dml" /\ conflict THEN "sendConflict"
    ELSE "send"

(* run: one receive from inCh and the switch, up to the next channel send *)
RunRecv ==
    /\ pc = "range"
    /\ inCh # <<>>
    /\ LET job == Head(inCh)
           conflict == IsDml(job) /\ detectConflict(groups, job.keys)
           added == add(groups, job.keys)
       IN  /\ inCh' = Tail(inCh)
           /\ pc' = AfterSwitch(job.tp, conflict)
           /\ IF IsFlush(job)
              THEN /\ groups' = rotate(groups, job.flushSeq)
                   /\ j' = job
                   /\ taken' = Append(taken, Taken(job, FALSE))
              ELSE IF IsGc(job)
              THEN /\ groups' = gc(groups, job.flushSeq)
                   /\ j' = job
                   /\ taken' = Append(taken, Taken(job, FALSE))
              ELSE IF conflict
              THEN /\ groups' = groups
                   /\ j' = job
                   /\ taken' = taken
              ELSE /\ groups' = added.groups
                   /\ j' = [job EXCEPT !.dmlQueueKey = added.relation]
                   /\ taken' = Append(taken, Taken(j', FALSE))
    /\ UNCHANGED <<inClosed, outCh, outClosed, produced, sent, lastOp,
                   queueSize>>

(* the conflict job sent without the clear after it *)
RunSendConflictNoClear ==
    /\ pc = "sendConflict"
    /\ Len(outCh) < queueSize
    /\ outCh' = Append(outCh, newConflictJob)
    /\ sent' = Append(sent, newConflictJob)
    /\ pc' = "add"
    /\ UNCHANGED <<groups, inCh, inClosed, outClosed, j, produced, taken,
                   lastOp, queueSize>>

(* run: c.outCh <- newConflictJob(c.workerCount); c.relation.clear() *)
RunSendConflict ==
    /\ pc = "sendConflict"
    /\ Len(outCh) < queueSize
    /\ outCh' = Append(outCh, newConflictJob)
    /\ sent' = Append(sent, newConflictJob)
    /\ groups' = clear(groups)
    /\ pc' = "add"
    /\ UNCHANGED <<inCh, inClosed, outClosed, j, produced, taken, lastOp,
                   queueSize>>

(* run: j.dmlQueueKey = c.add(keys), after a conflict *)
RunAdd ==
    /\ pc = "add"
    /\ LET added == add(groups, j.keys)
       IN  /\ groups' = added.groups
           /\ j' = [j EXCEPT !.dmlQueueKey = added.relation]
           /\ taken' = Append(taken, Taken(j', TRUE))
    /\ pc' = "send"
    /\ UNCHANGED <<inCh, inClosed, outCh, outClosed, produced, sent,
                   lastOp, queueSize>>

(* the send of j giving up when outCh is full *)
RunSendDropsWhenFull ==
    /\ pc = "send"
    /\ IF Len(outCh) < queueSize
       THEN outCh' = Append(outCh, j) /\ sent' = Append(sent, j)
       ELSE outCh' = outCh /\ sent' = sent
    /\ pc' = "range"
    /\ UNCHANGED <<groups, inCh, inClosed, outClosed, j, produced, taken,
                   lastOp, queueSize>>

(* run: c.outCh <- j *)
RunSend ==
    /\ pc = "send"
    /\ Len(outCh) < queueSize
    /\ outCh' = Append(outCh, j)
    /\ sent' = Append(sent, j)
    /\ pc' = "range"
    /\ UNCHANGED <<groups, inCh, inClosed, outClosed, j, produced, taken,
                   lastOp, queueSize>>

(* the loop ending as soon as inCh is empty, closed or not *)
RunReturnOnEmpty ==
    /\ pc = "range"
    /\ inCh = <<>>
    /\ pc' = "close"
    /\ UNCHANGED <<groups, inCh, inClosed, outCh, outClosed, j, produced,
                   taken, sent, lastOp, queueSize>>

(* run returns: the range over inCh ends when inCh is closed and drained *)
RunReturn ==
    /\ pc = "range"
    /\ inCh = <<>>
    /\ inClosed
    /\ pc' = "close"
    /\ UNCHANGED <<groups, inCh, inClosed, outCh, outClosed, j, produced,
                   taken, sent, lastOp, queueSize>>

(* causality.close *)
close ==
    /\ pc = "close"
    /\ outClosed' = TRUE
    /\ pc' = "done"
    /\ UNCHANGED <<groups, inCh, inClosed, outCh, j, produced, taken, sent,
                   lastOp, queueSize>>

(* the downstream receives from outCh *)
ConsumerRecv ==
    /\ outCh # <<>>
    /\ outCh' = Tail(outCh)
    /\ UNCHANGED <<groups, inCh, inClosed, outClosed, pc, j, produced,
                   taken, sent, lastOp, queueSize>>

Engine == RunRecv \/ RunSendConflict \/ RunAdd \/ RunSend \/ RunReturn \/ close

Next ==
    \/ ProducerDml
    \/ ProducerFlush
    \/ ProducerGc
    \/ ProducerClose
    \/ RunRecv
    \/ RunSendConflict
    \/ RunAdd
    \/ RunSend
    \/ RunReturn
    \/ close
    \/ ConsumerRecv

Spec == Init /\ [][Next]_vars

(* the engine goroutine is scheduled whenever it can step, and the         *)
(* downstream keeps receiving                                              *)
FairNext == Next /\ Len(produced') <= FairMaxJobs

FairSpec ==
    Init /\ [][FairNext]_vars /\ WF_vars(Engine) /\ WF_vars(ConsumerRecv)

----------------------------------------------------------------------------
(* The engine on longer inputs over fewer key lists: up to MaxLongJobs    *)
(* jobs, flush sequence numbers issued one after the other up to          *)
(* MaxLongSeq, gc only of a sequence number a flush has carried           *)

LongKeyLists == {<<>>, <<"a">>, <<"b">>, <<"">>, <<"a", "b">>, <<"a", "">>}

ProducerLongDml ==
    /\ Len(produced) < MaxLongJobs
    /\ \E keys \in LongKeyLists : Send(dmlJob(keys))

ProducerLongFlush ==
    /\ Len(produced) < MaxLongJobs
    /\ LastFlushSeq < MaxLongSeq
    /\ Send(flushJob("flush", LastFlushSeq + 1))

ProducerLongGc ==
    /\ Len(produced) < MaxLongJobs
    /\ \E seq \in 1..LastFlushSeq : Send(gcJob(seq))

LongNext ==
    \/ ProducerLongDml
    \/ ProducerLongFlush
    \/ ProducerLongGc
    \/ ProducerClose
    \/ RunRecv
    \/ RunSendConflict
    \/ RunAdd
    \/ RunSend
    \/ RunReturn
    \/ close
    \/ ConsumerRecv

SpecLong == Init /\ [][LongNext]_vars

----------------------------------------------------------------------------
(* The engine with outCh made with any capacity up to MaxQueueSize, on up *)
(* to MaxCapJobs jobs                                                     *)

InitCap ==
    /\ groups = newCausalityRelation
    /\ inCh = <<>>
    /\ inClosed = FALSE
    /\ outCh = <<>>
    /\ outClosed = FALSE
    /\ pc = "range"
    /\ j = NoJob
    /\ produced = <<>>
    /\ taken = <<>>
    /\ sent = <<>>
    /\ lastOp = NoOp
    /\ queueSize \in 1..MaxQueueSize

CapNext == Next /\ Len(produced') <= MaxCapJobs

SpecCap == InitCap /\ [][CapNext]_vars

(* the body of run applied to the jobs of input one after the other, from *)
(* the store gs and the output out, with nothing else running             *)
RECURSIVE RunAlone(_, _, _)
RunAlone(input, gs, out) ==
    IF input = <<>> THEN [groups |-> gs, out |-> out]
    ELSE LET job == Head(input)
         IN  IF IsFlush(job)
             THEN RunAlone(Tail(input), rotate(gs, job.flushSeq),
                           Append(out, job))
             ELSE IF IsGc(job)
             THEN RunAlone(Tail(input), gc(gs, job.flushSeq), out)
             ELSE LET conflict == detectConflict(gs, job.keys)
                      added == add(IF conflict THEN clear(gs) ELSE gs,
                                   job.keys)
                  IN  RunAlone(Tail(input), added.groups,
                               out \o (IF conflict THEN <<newConflictJob>>
                                                   ELSE <<>>)
                                   \o <<[job EXCEPT
                                           !.dmlQueueKey = added.relation]>>)

----------------------------------------------------------------------------
(* The store alone: any sequence of calls from newCausalityRelation *)

(* sequence numbers a caller passes to rotate and gc, keys and key lists  *)
(* it passes to set and detectConflict                                    *)
RelSeqs == 0..1

RelKeys == {"", "a"}

RelKeyLists ==
    {<<>>} \cup {<<k>> : k \in RelKeys}
           \cup {kl \in {<<k1, k2>> : k1, k2 \in RelKeys} : kl[1] # kl[2]}

RelOp(name, seq, keys, result, before) ==
    [name |-> name, seq |-> seq, keys |-> keys, result |-> result,
     before |-> before]

EngineIdle ==
    UNCHANGED <<inCh, inClosed, outCh, outClosed, pc, j, produced, taken,
                sent, queueSize>>

RelSet ==
    \E key \in RelKeys, val \in RelKeys :
        /\ \/ len(groups) < MaxEntries
           \/ key \in DOMAIN groups[Len(groups)].data
        /\ groups' = set(groups, key, val)
        /\ lastOp' = RelOp("set", 0, <<>>, FALSE, <<>>)
        /\ EngineIdle

RelRotate ==
    \E seq \in RelSeqs :
        /\ Len(groups) < MaxGroups
        /\ groups' = rotate(groups, seq)
        /\ lastOp' = RelOp("rotate", 0, <<>>, FALSE, <<>>)
        /\ EngineIdle

RelGc ==
    \E seq \in RelSeqs \cup {MaxInt64} :
        /\ groups' = gc(groups, seq)
        /\ lastOp' = RelOp("gc", seq, <<>>, FALSE, groups)
        /\ EngineIdle

RelClear ==
    /\ groups' = clear(groups)
    /\ lastOp' = RelOp("clear", MaxInt64, <<>>, FALSE, groups)
    /\ EngineIdle

RelDetectConflict ==
    \E keys \in RelKeyLists :
        /\ groups' = groups
        /\ lastOp' = RelOp("detectConflict", 0, keys,
                           detectConflict(groups, keys), <<>>)
        /\ EngineIdle

RelNext == RelSet \/ RelRotate \/ RelGc \/ RelClear \/ RelDetectConflict

SpecRel == Init /\ [][RelNext]_vars

----------------------------------------------------------------------------
(* Properties of the store (SpecRel) *)

KeySet(keys) == {keys[i] : i \in DOMAIN keys}

found(gs, key) == get(gs, key).ok

StrictlyIncreasing(gs) ==
    \A i \in 1..(Len(gs) - 1) :
        gs[i].prevFlushJobSeq < gs[i + 1].prevFlushJobSeq

(* the generations of gs that hold key *)
HeldIn(gs, key) == {i \in DOMAIN gs : key \in DOMAIN gs[i].data}

IsReclaim == lastOp.name = "gc" /\ lastOp.seq # MaxInt64

(* C5: detectConflict(keys) is true exactly when two keys of the list     *)
(* resolve to different group IDs, for every store and every key list     *)
(* over arbitrary strings, the empty string included.                     *)
C5_DetectIffTwoGroups ==
    lastOp.name = "detectConflict" =>
        (lastOp.result <=>
            \E k1, k2 \in KeySet(lastOp.keys) :
                /\ found(groups, k1)
                /\ found(groups, k2)
                /\ get(groups, k1).val # get(groups, k2).val)

C8_AtLeastOneGeneration ==
    /\ Len(groups) >= 1
    /\ (lastOp.name = "clear" \/ (lastOp.name = "gc" /\ lastOp.seq = MaxInt64))
          => /\ Len(groups) = 1
             /\ DOMAIN groups[1].data = {}
             /\ groups[1].prevFlushJobSeq = -1

(* a clear of a store of several generations holding entries *)
C8_Witness ==
    /\ lastOp.name = "clear"
    /\ Len(lastOp.before) > 1
    /\ len(lastOp.before) > 0
    /\ Len(groups) = 1

----------------------------------------------------------------------------
(* Properties of the engine (Spec, FairSpec) *)

IsConflict(job) == job.tp = "conflict"

Unlabel(job) == [job EXCEPT !.dmlQueueKey = ""]

(* the jobs run has received from inCh *)
Consumed == SubSeq(produced, 1, Len(produced) - Len(inCh))

(* run holds a change for which detectConflict returned true and has not  *)
(* labelled it yet                                                        *)
Pending == pc \in {"sendConflict", "add"}

(* the output the ordering rule gives for the first n classified jobs:    *)
(* the inputs in order, without the gc jobs, a conflict job before each   *)
(* change for which detectConflict returned true                          *)
RECURSIVE Expected(_)
Expected(n) ==
    IF n = 0 THEN <<>>
    ELSE Expected(n - 1) \o
         (IF IsGc(Consumed[n]) THEN <<>>
          ELSE IF taken[n].conflict THEN <<newConflictJob, Consumed[n]>>
          ELSE <<Consumed[n]>>)

(* C1: the output is the input with every gc job removed and one conflict *)
(* job inserted immediately before each change whose keys triggered a     *)
(* conflict; nothing else is dropped, duplicated or reordered.            *)
C1_OutputIsInputWithBarriers ==
    /\ Len(Consumed) = Len(taken) + (IF Pending THEN 1 ELSE 0)
    /\ \A i \in 1..Len(taken) : Unlabel(taken[i].job) = Consumed[i]
    /\ Pending => j = Consumed[Len(Consumed)]
    /\ [i \in 1..Len(sent) |-> Unlabel(sent[i])]
            \o (IF pc = "send" THEN <<Unlabel(j)>> ELSE <<>>)
         = Expected(Len(taken))
            \o (IF pc = "add" THEN <<newConflictJob>> ELSE <<>>)
    /\ pc = "done" => Consumed = produced

(* the engine has finished an input holding a flush, a gc and a conflict  *)
C1_Witness ==
    /\ pc = "done"
    /\ \E i \in 1..Len(taken) : taken[i].conflict
    /\ \E i \in 1..Len(produced) : IsGc(produced[i])
    /\ \E i \in 1..Len(produced) : IsFlush(produced[i])
    /\ Len(sent) = Len(produced)

(* index in taken of the last change that triggered a conflict, 0 if none *)
LastClear ==
    LET cs == {i \in 1..Len(taken) : taken[i].conflict}
    IN  IF cs = {} THEN 0 ELSE CHOOSE i \in cs : \A m \in cs : m <= i

(* C2: when detectConflict returns true for a change, run emits exactly   *)
(* one conflict job, the next job emitted is that change, and the store   *)
(* is reset in between: a key resolves afterwards only once a change      *)
(* assigned it again.                                                     *)
C2_ConflictEmitsBarrierAndResets ==
    /\ pc = "sendConflict" => IsDml(j) /\ detectConflict(groups, j.keys)
    /\ Count(sent, IsConflict)
         = Cardinality({i \in 1..Len(taken) : taken[i].conflict})
            + (IF pc = "add" THEN 1 ELSE 0)
    /\ pc = "add" =>
          /\ sent[Len(sent)] = newConflictJob
          /\ \A k \in Keys : ~found(groups, k)
    /\ \A i \in 1..Len(sent) :
          IsConflict(sent[i]) =>
              IF i < Len(sent)
              THEN \E n \in 1..Len(taken) :
                      /\ taken[n].conflict
                      /\ IsDml(taken[n].job)
                      /\ taken[n].job = sent[i + 1]
              ELSE \/ pc = "add"
                   \/ /\ pc = "send"
                      /\ taken[Len(taken)].conflict
                      /\ taken[Len(taken)].job = j
    /\ LastClear > 0 =>
          \A k \in Keys :
              found(groups, k) =>
                  \E n \in LastClear..Len(taken) :
                      /\ IsDml(taken[n].job)
                      /\ k \in KeySet(taken[n].job.keys)

(* between the conflict job and the merge: keys assigned before the       *)
(* conflict no longer resolve                                             *)
C2_Witness ==
    /\ pc = "add"
    /\ sent[Len(sent)] = newConflictJob
    /\ \E n \in 1..Len(taken) : IsDml(taken[n].job) /\ taken[n].job.keys # <<>>
    /\ \A k \in Keys : ~found(groups, k)

(* the classes of keys linked, directly or through shared keys, by the    *)
(* changes taken[lo..n]                                                   *)
RECURSIVE ClassesUpTo(_, _)
ClassesUpTo(lo, n) ==
    IF n < lo THEN {}
    ELSE LET cs == ClassesUpTo(lo, n - 1)
             K == IF IsDml(taken[n].job) THEN KeySet(taken[n].job.keys) ELSE {}
             touched == {c \in cs : c \cap K # {}}
         IN  IF K = {} THEN cs
             ELSE (cs \ touched) \cup {UNION touched \cup K}

(* C3: two keys linked by the changes processed since the last conflict-  *)
(* triggered clear never resolve to different group IDs, and the changes  *)
(* touching them never carry different labels, whatever flush and gc jobs *)
(* are interleaved.                                                       *)
C3_NoFalseNegatives ==
    LET lo == IF LastClear = 0 THEN 1 ELSE LastClear
    IN  \A c \in ClassesUpTo(lo, Len(taken)) :
            /\ \A k1, k2 \in c :
                  (found(groups, k1) /\ found(groups, k2))
                      => get(groups, k1).val = get(groups, k2).val
            /\ \A x, y \in lo..Len(taken) :
                  (/\ IsDml(taken[x].job)
                   /\ IsDml(taken[y].job)
                   /\ KeySet(taken[x].job.keys) \cap c # {}
                   /\ KeySet(taken[y].job.keys) \cap c # {})
                      => taken[x].job.dmlQueueKey = taken[y].job.dmlQueueKey

(* a flush after taken[x] and a later gc of at least its sequence number, *)
(* both before position y                                                 *)
Covered(x, y) ==
    \E f \in (x + 1)..(y - 1) :
        \E g \in (f + 1)..(y - 1) :
            /\ IsFlush(taken[f].job)
            /\ IsGc(taken[g].job)
            /\ taken[g].job.flushSeq >= taken[f].job.flushSeq

NoBarrierBetween(x, y) ==
    \A i \in (x + 1)..y : i <= Len(taken) => ~taken[i].conflict

(* no change received so far has the empty string among its keys *)
NoEmptyKey ==
    \A i \in 1..Len(taken) : "" \notin KeySet(taken[i].job.keys)

(* C4: a change Y sharing a key with an earlier change X, no conflict job *)
(* emitted between them and X not covered by a flush followed by a gc of  *)
(* at least its sequence number, gets the label of X; in particular a key *)
(* touched by a change processed after the flush s still resolves after   *)
(* gc(s). Stated for changes whose keys are not the empty string, which   *)
(* keeps the conflicts detectConflict misses (C5) out of it.              *)
C4_ReclaimForgetsOnlyDurable ==
    NoEmptyKey =>
    /\ \A x, y \in 1..Len(taken) :
          (/\ x < y
           /\ IsDml(taken[x].job)
           /\ IsDml(taken[y].job)
           /\ KeySet(taken[x].job.keys) \cap KeySet(taken[y].job.keys) # {}
           /\ NoBarrierBetween(x, y)
           /\ ~Covered(x, y))
              => taken[y].job.dmlQueueKey = taken[x].job.dmlQueueKey
    /\ \A x \in 1..Len(taken) :
          (/\ IsDml(taken[x].job)
           /\ pc # "add"
           /\ NoBarrierBetween(x, Len(taken))
           /\ ~Covered(x, Len(taken) + 1)
           /\ \E f \in 1..(x - 1) :
                 \E g \in (x + 1)..Len(taken) :
                     /\ IsFlush(taken[f].job)
                     /\ IsGc(taken[g].job)
                     /\ taken[g].job.flushSeq = taken[f].job.flushSeq)
              => \A k \in KeySet(taken[x].job.keys) : found(groups, k)

(* the changes run has received, the pending one included *)
DmlSeen ==
    SelectSeq([i \in 1..Len(taken) |-> taken[i].job], IsDml)
        \o (IF Pending THEN <<j>> ELSE <<>>)

Independent ==
    /\ \A x \in 1..Len(DmlSeen) : DmlSeen[x].keys # <<>>
    /\ \A x, y \in 1..Len(DmlSeen) :
          x # y => KeySet(DmlSeen[x].keys) \cap KeySet(DmlSeen[y].keys) = {}

(* C9: when the changes have non-empty, pairwise disjoint key sets, no    *)
(* conflict job is emitted and the labels of the changes are pairwise     *)
(* distinct, whatever flush and gc jobs are interleaved.                  *)
C9_NoFalsePositives ==
    Independent =>
        /\ ~Pending
        /\ \A i \in 1..Len(taken) : ~taken[i].conflict
        /\ \A i \in 1..Len(sent) : ~IsConflict(sent[i])
        /\ \A x, y \in 1..Len(DmlSeen) :
              x # y => DmlSeen[x].dmlQueueKey # DmlSeen[y].dmlQueueKey

(* three independent changes around a flush and a gc, all forwarded *)
C9_Witness ==
    /\ Independent
    /\ Len(DmlSeen) = 3
    /\ \E i \in 1..Len(taken) : IsGc(taken[i].job)
    /\ \E i \in 1..Len(taken) : IsFlush(taken[i].job)
    /\ pc = "done"

(* C10: once inCh is closed and the downstream keeps receiving, run       *)
(* forwards what is still buffered, outCh is closed and the goroutine     *)
(* ends; outCh is closed only after inCh was closed and drained, and      *)
(* nothing is sent on outCh after it is closed.                           *)
C10_Shutdown ==
    /\ [](outClosed => (inClosed /\ inCh = <<>> /\ pc = "done"))
    /\ [][outClosed => (outClosed' /\ sent' = sent)]_vars
    /\ inClosed ~> (/\ pc = "done"
                    /\ outClosed
                    /\ outCh = <<>>
                    /\ Len(taken) = Len(produced)
                    /\ Len(sent) = Len(Expected(Len(taken))))

(* the goroutine has ended after forwarding a conflict job and its change *)
C10_Witness ==
    /\ pc = "done"
    /\ outClosed
    /\ outCh = <<>>
    /\ \E i \in 1..Len(sent) : IsConflict(sent[i])

----------------------------------------------------------------------------
(* Effects of one job on the store and on the output (Spec) *)

(* this step is run receiving from inCh a job that satisfies P *)
Receives(P(_)) == Len(inCh') < Len(inCh) /\ P(Head(inCh))

(* this step places j on outCh *)
Forwards == pc = "send" /\ pc' # "send"

Newest(gs) == gs[Len(gs)]

(* C12: a flush or asyncFlush job appends one empty generation tagged     *)
(* with its sequence number as the newest, leaves the generations there   *)
(* and what every key resolves to unchanged, emits no conflict job and is *)
(* forwarded as it came.                                                  *)
C12_FlushRotatesAndPasses ==
    /\ [][Receives(IsFlush) =>
            /\ Len(groups') = Len(groups) + 1
            /\ SubSeq(groups', 1, Len(groups)) = groups
            /\ DOMAIN Newest(groups').data = {}
            /\ Newest(groups').prevFlushJobSeq = Head(inCh).flushSeq
            /\ \A k \in Keys : get(groups', k) = get(groups, k)
            /\ sent' = sent
            /\ pc' = "send"
            /\ j' = Head(inCh)]_vars
    /\ [][(Forwards /\ IsFlush(j)) =>
            /\ sent' = Append(sent, j)
            /\ j = Consumed[Len(Consumed)]
            /\ groups' = groups]_vars

(* a flush has been received over a store holding keys *)
C12_Witness ==
    /\ pc = "send"
    /\ IsFlush(j)
    /\ Len(groups) = 2
    /\ DOMAIN groups[1].data # {}
    /\ DOMAIN groups[2].data = {}

(* C13: right after run has processed a change with keys, conflict or     *)
(* not, every key of the change resolves to the label of the change.      *)
C13_KeysResolveToLabel ==
    (pc = "send" /\ IsDml(j) /\ j.keys # <<>>) =>
        \A k \in KeySet(j.keys) :
            get(groups, k) = [val |-> j.dmlQueueKey, ok |-> TRUE]

(* C14: a change that triggers no conflict changes the group ID of no key *)
(* that resolves and removes no entry; it adds entries only for its keys  *)
(* that did not resolve, only in the newest generation, and leaves the    *)
(* older generations unchanged.                                           *)
C14_MergeOnlyAddsToNewest ==
    [][(Receives(IsDml) /\ ~detectConflict(groups, Head(inCh).keys)) =>
        /\ Len(groups') = Len(groups)
        /\ \A i \in 1..(Len(groups) - 1) : groups'[i] = groups[i]
        /\ Newest(groups').prevFlushJobSeq = Newest(groups).prevFlushJobSeq
        /\ \A k \in DOMAIN Newest(groups).data :
              /\ k \in DOMAIN Newest(groups').data
              /\ Newest(groups').data[k] = Newest(groups).data[k]
        /\ \A k \in DOMAIN Newest(groups').data \ DOMAIN Newest(groups).data :
              /\ k \in KeySet(Head(inCh).keys)
              /\ ~found(groups, k)
        /\ \A k \in Keys : found(groups, k) => get(groups', k) = get(groups, k)
      ]_vars

(* a change without conflict one key of which resolved in an older        *)
(* generation and the other was added to the newest                       *)
C14_Witness ==
    /\ pc = "send"
    /\ IsDml(j)
    /\ taken # <<>>
    /\ ~taken[Len(taken)].conflict
    /\ Len(groups) = 2
    /\ Len(j.keys) = 2
    /\ j.keys[1] \in DOMAIN groups[1].data
    /\ j.keys[2] \in DOMAIN groups[2].data

(* C15: two keys that resolve to the same group ID are linked, directly   *)
(* or through shared keys, by the changes processed since the last        *)
(* conflict-triggered clear, whatever flush and gc jobs are interleaved.  *)
C15_NoSpuriousMerging ==
    LET lo == IF LastClear = 0 THEN 1 ELSE LastClear
    IN  \A k1, k2 \in Keys :
            (/\ k1 # k2
             /\ found(groups, k1)
             /\ found(groups, k2)
             /\ get(groups, k1).val = get(groups, k2).val)
                => \E c \in ClassesUpTo(lo, Len(taken)) : {k1, k2} \subseteq c

(* after a gc that dropped a generation, two keys share a group ID *)
C15_Witness ==
    /\ \E i \in 1..Len(taken) : IsGc(taken[i].job)
    /\ groups[1].prevFlushJobSeq # -1
    /\ \E k1, k2 \in Keys :
          /\ k1 # k2
          /\ found(groups, k1)
          /\ found(groups, k2)
          /\ get(groups, k1).val = get(groups, k2).val

(* C16: every key is held by at most one generation of the store. *)
C16_KeyInOneGeneration ==
    \A k \in Keys : Cardinality(HeldIn(groups, k)) <= 1

(* two generations hold keys, and a change has just met one it resolves   *)
(* in the older one                                                       *)
C16_Witness ==
    /\ Len(groups) = 2
    /\ DOMAIN groups[1].data # {}
    /\ DOMAIN groups[2].data # {}
    /\ pc = "send"
    /\ IsDml(j)
    /\ \E k \in KeySet(j.keys) : HeldIn(groups, k) = {1}

(* C18: a change with no keys is forwarded with the empty label, triggers *)
(* no conflict job and leaves the store as it was.                        *)
C18_EmptyKeysPassThrough ==
    /\ [][(Receives(IsDml) /\ Head(inCh).keys = <<>>) =>
            /\ groups' = groups
            /\ sent' = sent
            /\ pc' = "send"
            /\ j' = Head(inCh)
            /\ j'.dmlQueueKey = ""]_vars
    /\ [][(Forwards /\ IsDml(j) /\ j.keys = <<>>) =>
            /\ sent' = Append(sent, j)
            /\ j.dmlQueueKey = ""
            /\ groups' = groups]_vars

(* a change with no keys has been received over a store holding keys *)
C18_Witness ==
    /\ pc = "send"
    /\ IsDml(j)
    /\ j.keys = <<>>
    /\ len(groups) > 0

----------------------------------------------------------------------------
(* After a conflict, and the order of the tags (SpecLong) *)

(* run has just labelled the change for which it cleared the store *)
ConflictDone == pc = "send" /\ taken # <<>> /\ taken[Len(taken)].conflict

(* the store add leaves from an empty one: one generation tagged -1 that  *)
(* maps every key of keys to the first                                    *)
FreshGroup(keys) ==
    <<[data |-> [k \in KeySet(keys) |-> keys[1]], prevFlushJobSeq |-> -1]>>

(* taken[y] is a change after the conflicting change taken[x], its keys   *)
(* among those of taken[x], no gc job between the two                     *)
SubsetAfter(x, y) ==
    /\ x < y
    /\ taken[x].conflict
    /\ IsDml(taken[y].job)
    /\ KeySet(taken[y].job.keys) \subseteq KeySet(taken[x].job.keys)
    /\ \A i \in (x + 1)..(y - 1) : ~IsGc(taken[i].job)

SameGroupNoBarrier(x, y) ==
    /\ ~taken[y].conflict
    /\ taken[y].job.dmlQueueKey = taken[x].job.dmlQueueKey

(* C11 as stated: right after a conflicting change the store is one       *)
(* generation tagged -1 mapping exactly the keys of the change to its     *)
(* first key, which is its label; every later change whose keys are among *)
(* those keys, with no gc job in between, gets that label and triggers no *)
(* conflict job.                                                          *)
C11_SubsetChangeJoins ==
    /\ ConflictDone =>
          /\ groups = FreshGroup(j.keys)
          /\ j.dmlQueueKey = j.keys[1]
    /\ \A x, y \in 1..Len(taken) :
          SubsetAfter(x, y) => SameGroupNoBarrier(x, y)

(* C11 amended: the later change has at least one key, and no other       *)
(* change triggered a conflict between the two.                           *)
C11_NonEmptySubsetChangeJoins ==
    /\ ConflictDone =>
          /\ groups = FreshGroup(j.keys)
          /\ j.dmlQueueKey = j.keys[1]
    /\ \A x, y \in 1..Len(taken) :
          (/\ SubsetAfter(x, y)
           /\ taken[y].job.keys # <<>>
           /\ \A i \in (x + 1)..(y - 1) : ~taken[i].conflict)
              => SameGroupNoBarrier(x, y)

(* a change with a key of the conflicting change has been labelled after  *)
(* a flush that followed the conflict                                     *)
C11_Witness ==
    /\ pc = "send"
    /\ \E x \in 1..Len(taken) :
          /\ SubsetAfter(x, Len(taken))
          /\ Len(taken[x].job.keys) = 2
          /\ taken[Len(taken)].job.keys # <<>>
          /\ \A i \in (x + 1)..(Len(taken) - 1) : ~taken[i].conflict
          /\ \E i \in (x + 1)..(Len(taken) - 1) : IsFlush(taken[i].job)

(* the flush jobs sent so far carry increasing sequence numbers above -1 *)
FlushSeqsIncrease ==
    \A a, b \in 1..Len(produced) :
        (IsFlush(produced[a]) /\ IsFlush(produced[b]) /\ a < b) =>
            /\ -1 < produced[a].flushSeq
            /\ produced[a].flushSeq < produced[b].flushSeq

(* C17: when flush jobs arrive with increasing sequence numbers above -1, *)
(* the tags of the generations never decrease from oldest to newest, so   *)
(* the generations tagged at most s are a prefix of the list.             *)
C17_TagsNonDecreasing ==
    FlushSeqsIncrease =>
        /\ \A i \in 1..(Len(groups) - 1) :
              groups[i].prevFlushJobSeq <= groups[i + 1].prevFlushJobSeq
        /\ \A n \in 1..Len(groups) :
              LET s == groups[n].prevFlushJobSeq
              IN  \A i \in 1..n : groups[i].prevFlushJobSeq <= s

(* after a conflict cleared the store, two flushes and a gc have left two *)
(* generations tagged by the flushes                                      *)
C17_Witness ==
    /\ LastClear > 0
    /\ \E i \in (LastClear + 1)..Len(taken) : IsGc(taken[i].job)
    /\ Len(groups) = 2
    /\ groups[1].prevFlushJobSeq > -1
    /\ groups[2].prevFlushJobSeq > groups[1].prevFlushJobSeq

----------------------------------------------------------------------------
(* The engine between a producer and a consumer running on their own      *)
(* (SpecCap)                                                              *)

IsPrefix(s, t) == Len(s) <= Len(t) /\ s = SubSeq(t, 1, Len(s))

IsSuffix(s, t) == Len(s) <= Len(t) /\ s = SubSeq(t, Len(t) - Len(s) + 1, Len(t))

(* what run alone leaves for the jobs received so far *)
Alone == RunAlone(Consumed, newCausalityRelation, <<>>)

(* run is between two jobs, or has ended *)
BetweenJobs == pc \in {"range", "close", "done"}

(* C19: whatever the capacity of outCh and however the upstream, run and  *)
(* the downstream interleave, what has been placed on outCh, and so what  *)
(* the downstream receives from it, is what run alone outputs for the     *)
(* jobs received: no job is lost, repeated or labelled otherwise while    *)
(* run waits on an empty inCh or a full outCh, and run receives the next  *)
(* job only once the output for the current one is on outCh.              *)
C19_OutputIsAFunctionOfTheInput ==
    /\ [](LET alone == Alone
          IN  /\ Len(outCh) <= queueSize
              /\ IsSuffix(inCh, produced)
              /\ IsSuffix(outCh, sent)
              /\ IsPrefix(sent, alone.out)
              /\ BetweenJobs => (sent = alone.out /\ groups = alone.groups)
              /\ pc = "done" => Consumed = produced)
    /\ [][Len(inCh') < Len(inCh) =>
            /\ pc = "range"
            /\ sent = Alone.out
            /\ inCh' = Tail(inCh)]_vars
    /\ [][Len(outCh') < Len(outCh) =>
            /\ outCh' = Tail(outCh)
            /\ sent' = sent]_vars

(* run waits on a full outCh of capacity above one with a job in hand,    *)
(* after the downstream has received part of an output with a conflict    *)
(* job in it, while the upstream has the next job waiting in inCh         *)
C19_Witness ==
    /\ queueSize > 1
    /\ Len(outCh) = queueSize
    /\ pc = "send"
    /\ inCh # <<>>
    /\ Len(sent) > Len(outCh)
    /\ \E i \in 1..Len(sent) : IsConflict(sent[i])

============================================================================
